---- MODULE Spec2Model ----
(***************************************************************************)
(* Lesson generation client of Deutsch_Coach (services/geminiService.ts):  *)
(* the retry loop of generateLesson with its parser, validator and mapper, *)
(* and the single model call of evaluateWriting.                           *)
(*                                                                         *)
(* JavaScript values are tagged records: undefined, null, number, string   *)
(* (a sequence of one-character strings), list and object (a function      *)
(* from the present property names to values).  A function that can raise  *)
(* returns [ok |-> TRUE, val |-> v] or Threw.                              *)
(***************************************************************************)
EXTENDS Integers, Sequences, FiniteSets, TLC

VARIABLES
    pc,        \* position of the generateLesson call: idle, inflight, backoff, done
    level,     \* the level argument of the call
    attempt,   \* the loop variable of the retry loop (0-based)
    calls,     \* number of ai.models.generateContent calls issued so far
    hist,      \* one record per completed attempt: its outcome (out), the delay
               \* of the timer set after it (wait), and the time the timer had
               \* run when the next call was issued (gap)
    result,    \* the value the promise resolved with (NoResult until then)
    escaped,   \* TRUE when an exception left generateLesson (promise rejected)
    timerMs,   \* the delay of the pending setTimeout
    elapsed,   \* milliseconds since the pending setTimeout was set
    fn,        \* the function applied on its own: none, validate, map or parse
    arg,       \* the argument it is applied to
    out,       \* what it returned: Ok(value) or Threw
    wpc,       \* evaluateWriting: idle, calling, inflight or done
    wreq,      \* its arguments: prompt, userText and level
    wcalls,    \* model calls issued by the current evaluateWriting call
    wsent,     \* the contents of the model call in flight
    wout,      \* how the model call ended
    wresult,   \* the value the promise resolved with (NoResult until then)
    wescaped,  \* TRUE when an exception left evaluateWriting
    reqs,      \* two generateLesson calls side by side: for each its position,
               \* level, loop variable, calls issued, outcomes and result
    mounted,            \* a LessonSession instance is mounted
    instance,           \* the number of the instance mounted last
    loads,              \* the loadContent calls so far: instance, isMounted
                        \* flag of their effect, settled or not, whether
                        \* generateLesson gave null, level and type
    content,            \* LessonSession state: the lesson, or null
    stage,
    currentCardIndex,
    readingAnswers,     \* question index -> chosen option
    writingText,        \* the text typed so far has 10 characters or more
    writingFeedback,
    isEvaluating,
    score,
    evaluations,        \* instances whose evaluateWriting call is in flight
    completed,          \* the score handed to onComplete, or null
    view,               \* App state: onboarding, dashboard or lesson
    activeLessonType,   \* null or {type, level}
    courseProgress,     \* level -> {lessonsDone, totalLessons}
    examStats,          \* lastScore and whether lastSessionDate was set
    currentLevel,       \* profile.currentLevel
    crashed             \* an exception reached React while rendering App

genVars == <<pc, level, attempt, calls, hist, result, escaped, timerMs, elapsed>>
fnVars == <<fn, arg, out>>
wrVars == <<wpc, wreq, wcalls, wsent, wout, wresult, wescaped>>
conVars == <<reqs>>
seVars == <<mounted, instance, loads, content, stage, currentCardIndex, readingAnswers,
            writingText, writingFeedback, isEvaluating, score, evaluations, completed>>
appVars == <<view, activeLessonType, courseProgress, examStats, currentLevel, crashed>>
vars == <<genVars, fnVars, wrVars, conVars, seVars, appVars>>

----------------------------------------------------------------------------
(* Bounds of the model *)

\* time advances in steps of TickMs, and a timer is followed for MaxElapsed
TickMs == 500
MaxElapsed == 2500

(* Program constants *)
MaxAttempts == 3
BackoffUnitMs == 1000
MaxWordsA0 == 60
MaxWordsOther == 150
MaxRepeat == 8
ShortWordLen == 3
TotalA1 == 20
TotalA2 == 25
TotalB1 == 30

----------------------------------------------------------------------------
(* JavaScript values *)

Undef == [tag |-> "undefined"]
JNull == [tag |-> "null"]
Num(n) == [tag |-> "number", n |-> n]
Str(cs) == [tag |-> "string", chars |-> cs]
List(xs) == [tag |-> "list", items |-> xs]
Obj(f) == [tag |-> "object", f |-> f]

Threw == [ok |-> FALSE]
Ok(v) == [ok |-> TRUE, val |-> v]

\* ToBoolean, as used by `x || d`, `!x` and `if (x)`
Truthy(v) ==
    CASE v.tag = "undefined" -> FALSE
      [] v.tag = "null" -> FALSE
      [] v.tag = "number" -> v.n # 0
      [] v.tag = "string" -> Len(v.chars) > 0
      [] OTHER -> TRUE

\* v.k for a value that is neither null nor undefined: only objects carry the
\* payload's properties
Get(v, k) ==
    IF v.tag = "object" /\ k \in DOMAIN v.f THEN v.f[k] ELSE Undef

\* property access raises a TypeError on null and undefined
Nullish(v) == v.tag \in {"undefined", "null"}

\* mutant of OrElse: x ?? d, which keeps a falsy value that is not nullish
OrElseNullish(v, d) == IF Nullish(v) THEN d ELSE v

\* x || d
OrElse(v, d) == IF Truthy(v) THEN v ELSE d

----------------------------------------------------------------------------
(* Strings *)

WhiteSpace == {" ", "\n", "\t"}

UpperToLower ==
    [c \in {"A", "B", "D", "E", "G", "H", "L", "N", "S", "U", "W"} |->
        CASE c = "A" -> "a" [] c = "B" -> "b" [] c = "D" -> "d"
          [] c = "E" -> "e" [] c = "G" -> "g" [] c = "H" -> "h"
          [] c = "L" -> "l" [] c = "N" -> "n" [] c = "S" -> "s"
          [] c = "U" -> "u" [] c = "W" -> "w"]

\* String.prototype.toLowerCase
toLowerCase(cs) ==
    [i \in 1..Len(cs) |->
        IF cs[i] \in DOMAIN UpperToLower THEN UpperToLower[cs[i]] ELSE cs[i]]

\* String.prototype.split(/\s+/): the pieces between maximal whitespace runs,
\* with an empty piece before a leading run and after a trailing one.  The
\* text is cut in halves and the pieces of the halves are joined: the piece
\* that ends the left half and the piece that starts the right half are one
\* piece, and a whitespace run that spans the cut separates only once.
RECURSIVE SplitRange(_, _, _)
SplitRange(cs, lo, hi) ==
    IF lo > hi THEN << <<>> >>
    ELSE IF lo = hi
         THEN IF cs[lo] \in WhiteSpace THEN << <<>>, <<>> >> ELSE << <<cs[lo]>> >>
    ELSE LET mid == (lo + hi) \div 2
             L == SplitRange(cs, lo, mid)
             R == SplitRange(cs, mid + 1, hi)
         IN IF cs[mid] \in WhiteSpace /\ cs[mid + 1] \in WhiteSpace
            THEN SubSeq(L, 1, Len(L) - 1) \o SubSeq(R, 2, Len(R))
            ELSE SubSeq(L, 1, Len(L) - 1) \o << L[Len(L)] \o R[1] >>
                     \o SubSeq(R, 2, Len(R))

split(cs) == SplitRange(cs, 1, Len(cs))

----------------------------------------------------------------------------
(* validateResponse *)

\* mutant of maxWords: one ceiling for every level
maxWordsSame(lvl) == MaxWordsOther

maxWords(lvl) == IF lvl = "A0" THEN MaxWordsA0 ELSE MaxWordsOther

\* wordFreq[word] right after the loop has counted words[i]
wordFreq(words, i) == Cardinality({j \in 1..i : words[j] = words[i]})

\* wordFreq is the object literal {}: for the lower-case names it inherits from
\* Object.prototype, wordFreq[word] || 0 is the inherited value and not a
\* count, the sum is a string, and its comparison with 8 is false
InheritedKeys ==
    {<<"c", "o", "n", "s", "t", "r", "u", "c", "t", "o", "r">>,
     <<"_", "_", "p", "r", "o", "t", "o", "_", "_">>}

\* the word-frequency loop returns false at the first word longer than
\* ShortWordLen whose count has passed MaxRepeat
RepetitionDetected(words) ==
    \E i \in 1..Len(words) :
        /\ Len(words[i]) > ShortWordLen
        /\ words[i] \notin InheritedKeys
        /\ wordFreq(words, i) > MaxRepeat

\* mutant of VocMissing: the length of the list not looked at
VocMissingIfFalsy(voc) == ~Truthy(voc)

\* the vocabulary check: !raw.voc || raw.voc.length === 0
VocMissing(voc) ==
    \/ ~Truthy(voc)
    \/ voc.tag = "list" /\ Len(voc.items) = 0

validateResponse(raw, lvl) ==
    IF Nullish(raw) THEN Threw
    ELSE LET txt == Get(raw, "txt")
             voc == Get(raw, "voc")
         IN IF Truthy(txt) /\ txt.tag # "string" THEN Threw
            ELSE IF Truthy(txt) /\ Len(split(txt.chars)) > maxWords(lvl)
                 THEN Ok(FALSE)
            ELSE IF Truthy(txt)
                    /\ RepetitionDetected(split(toLowerCase(txt.chars)))
                 THEN Ok(FALSE)
            ELSE IF VocMissing(voc) THEN Ok(FALSE)
            ELSE Ok(TRUE)

----------------------------------------------------------------------------
(* mapRawToLesson *)

DefaultTopic == Str(<<"L", "e", "s", "s", "o", "n">>)
DefaultLevel == Str(<<"A", "1">>)

\* the operand of (x || []).map(f)
ListOrEmpty(v) == OrElse(v, List(<<>>))

\* (x || []).map(f) raises unless the operand is a list (only a list has map)
\* and no element is null: f reads the properties of each element
MapRaises(v) ==
    LET xs == ListOrEmpty(v) IN
    \/ xs.tag # "list"
    \/ \E i \in 1..Len(xs.items) : Nullish(xs.items[i])

\* mutant of VocabularyCard: the two translations exchanged
VocabularyCardSwapped(v) ==
    [german |-> Get(v, "de"), englishExplanation |-> Get(v, "hi"),
     hindiTranslation |-> Get(v, "en"), exampleSentence |-> Get(v, "ex")]

VocabularyCard(v) ==
    [german |-> Get(v, "de"), englishExplanation |-> Get(v, "en"),
     hindiTranslation |-> Get(v, "hi"), exampleSentence |-> Get(v, "ex")]

QuizQuestion(q) ==
    [question |-> Get(q, "qu"), options |-> Get(q, "ops"),
     correctAnswer |-> Get(q, "ans"), explanation |-> Get(q, "exp")]

mapRawToLesson(raw) ==
    IF Nullish(raw) THEN Threw
    ELSE IF MapRaises(Get(raw, "voc")) \/ MapRaises(Get(raw, "q")) THEN Threw
    ELSE LET voc == ListOrEmpty(Get(raw, "voc")).items
             q == ListOrEmpty(Get(raw, "q")).items
         IN Ok([topic |-> OrElse(Get(raw, "t"), DefaultTopic),
                level |-> OrElse(Get(raw, "l"), DefaultLevel),
                vocabulary |-> List([i \in 1..Len(voc) |-> VocabularyCard(voc[i])]),
                readingText |-> Get(raw, "txt"),
                readingTextTranslation |-> Get(raw, "txt_tr"),
                readingQuestions |-> List([i \in 1..Len(q) |-> QuizQuestion(q[i])]),
                writingPrompt |-> Get(raw, "wr"),
                writingPoints |-> Get(raw, "pts"),
                listeningScenario |-> Get(raw, "lis")])

----------------------------------------------------------------------------
(* The response text and its parsing *)

\* A response text is a sequence of tokens: a character Ch(c), or Doc(v), the
\* serialisation of the JSON value v taken as one unit.
Ch(c) == [c |-> c]
Doc(v) == [doc |-> v]
Chars(cs) == [i \in 1..Len(cs) |-> Ch(cs[i])]

IsSpace(tok) == "c" \in DOMAIN tok /\ tok.c \in WhiteSpace

\* drop the leading whitespace tokens
trimStart(ts) ==
    LET solid == {i \in 1..Len(ts) : ~IsSpace(ts[i])} IN
    IF solid = {} THEN <<>>
    ELSE SubSeq(ts, CHOOSE i \in solid : \A j \in solid : i <= j, Len(ts))

\* drop the trailing whitespace tokens
trimEnd(ts) ==
    LET solid == {i \in 1..Len(ts) : ~IsSpace(ts[i])} IN
    IF solid = {} THEN <<>>
    ELSE SubSeq(ts, 1, CHOOSE i \in solid : \A j \in solid : i >= j)

\* String.prototype.trim
trim(ts) == trimEnd(trimStart(ts))

startsWith(ts, cs) ==
    /\ Len(ts) >= Len(cs)
    /\ \A i \in 1..Len(cs) : ts[i] = Ch(cs[i])

endsWith(ts, cs) ==
    /\ Len(ts) >= Len(cs)
    /\ \A i \in 1..Len(cs) : ts[Len(ts) - Len(cs) + i] = Ch(cs[i])

\* the character U+0060, which a TLA+ string cannot hold
Backtick == "<U+0060>"
Fence == <<Backtick, Backtick, Backtick>>
FenceJson == Fence \o <<"j", "s", "o", "n">>

\* the first replace: remove the opening fence and the whitespace after it
StripOpening(ts, opening) == trimStart(SubSeq(ts, Len(opening) + 1, Len(ts)))

\* the second replace: remove a fence at the very end of the text and the
\* whitespace before it
StripClosing(ts) ==
    IF endsWith(ts, Fence) THEN trimEnd(SubSeq(ts, 1, Len(ts) - Len(Fence)))
    ELSE ts

\* lines 193-199: trim, then remove a markdown fence if the text opens with one
cleanText(text) ==
    LET t == trim(text) IN
    IF startsWith(t, FenceJson) THEN StripClosing(StripOpening(t, FenceJson))
    ELSE IF startsWith(t, Fence) THEN StripClosing(StripOpening(t, Fence))
    ELSE t

\* JSON.parse: one document, whitespace allowed around it; anything else is a
\* SyntaxError
JSONparse(ts) ==
    LET t == trim(ts) IN
    IF Len(t) = 1 /\ "doc" \in DOMAIN t[1] THEN Ok(t[1].doc) ELSE Threw

----------------------------------------------------------------------------
(* One iteration of the retry loop of generateLesson *)

\* what ai.models.generateContent can do: reject, or resolve with a response
\* whose text is undefined or a string
CallError == [kind |-> "error"]
Response(text) == [kind |-> "response", text |-> text]

Lesson(l) == [tag |-> "lesson", lesson |-> l]
NoResult == [tag |-> "pending"]

\* `attempt === 2`
LastAttempt == 2

\* mutants of TryBlock: the mapping, or the parsing, left outside the try
TryBlockWithoutMap == {"call", "parse", "validate"}
TryBlockWithoutParse == {"call", "validate", "map"}

\* the steps of the loop body that lie inside try { ... } (lines 138-215)
TryBlock == {"call", "parse", "validate", "map"}

\* mutant of BackoffMs: the delay taken from the 0-based loop variable
BackoffMsZeroBased(att) == BackoffUnitMs * att

\* setTimeout(resolve, 1000 * (attempt + 1))
BackoffMs(att) == BackoffUnitMs * (att + 1)

\* mutants of Catch: the last error rethrown; no retry after an error; the
\* retries given up one attempt early
CatchRethrows(att) ==
    IF att = LastAttempt THEN [act |-> "throw"]
    ELSE [act |-> "wait", ms |-> BackoffUnitMs * (att + 1)]
CatchGivesUp(att) == [act |-> "return", val |-> JNull]
CatchOneEarly(att) ==
    IF att >= LastAttempt - 1 THEN [act |-> "return", val |-> JNull]
    ELSE [act |-> "wait", ms |-> BackoffUnitMs * (att + 1)]

\* the catch block (lines 215-221)
Catch(att) ==
    IF att = LastAttempt THEN [act |-> "return", val |-> JNull]
    ELSE [act |-> "wait", ms |-> BackoffMs(att)]

\* an exception raised at a step is caught when the step is inside the try
Raise(step, att) ==
    IF step \in TryBlock THEN Catch(att) ELSE [act |-> "throw"]

\* mutants of Decide: a rejected payload retried through the backoff path;
\* the last rejected payload dropped instead of returned
DecideWithBackoff(rawData, valid, att) ==
    IF valid \/ att = LastAttempt
    THEN LET lesson == mapRawToLesson(rawData) IN
         IF lesson.ok THEN [act |-> "return", val |-> Lesson(lesson.val)]
         ELSE [act |-> "wait", ms |-> BackoffUnitMs * (att + 1)]
    ELSE [act |-> "wait", ms |-> BackoffUnitMs * (att + 1)]

\* lines 204-213, for a payload the validator returned `valid` for
Decide(rawData, valid, att) ==
    IF valid \/ att = LastAttempt
    THEN LET lesson == mapRawToLesson(rawData) IN
         IF lesson.ok THEN [act |-> "return", val |-> Lesson(lesson.val)]
         ELSE Raise("map", att)
    ELSE [act |-> "next"]

\* mutant of Body: no test of response.text before the parsing
BodyWithoutTextCheck(o, lvl, att) ==
    IF o.kind = "error" THEN Raise("call", att)
    ELSE IF ~Truthy(o.text) THEN Raise("parse", att)
    ELSE LET rawData == JSONparse(cleanText(o.text.chars)) IN
         IF ~rawData.ok THEN Raise("parse", att)
         ELSE LET valid == validateResponse(rawData.val, lvl) IN
              IF ~valid.ok THEN Raise("validate", att)
              ELSE Decide(rawData.val, valid.val, att)

\* the body of the loop (lines 138-221), given what the model call did
Body(o, lvl, att) ==
    IF o.kind = "error" THEN Raise("call", att)
    ELSE IF ~Truthy(o.text) THEN [act |-> "next"]
    ELSE LET rawData == JSONparse(cleanText(o.text.chars)) IN
         IF ~rawData.ok THEN Raise("parse", att)
         ELSE LET valid == validateResponse(rawData.val, lvl) IN
              IF ~valid.ok THEN Raise("validate", att)
              ELSE Decide(rawData.val, valid.val, att)

\* mutant of LoopCond: one iteration too many
LoopCondInclusive(att) == att <= MaxAttempts

\* the loop condition `attempt < 3`
LoopCond(att) == att < MaxAttempts

----------------------------------------------------------------------------
(* The inputs of the model: what the model endpoint can answer *)

Levels == {"A0", "A1", "B1"}

\* n copies of the word w, separated by single spaces
Repeat(w, n) ==
    LET k == Len(w) + 1 IN
    [i \in 1..(n * k - 1) |-> IF i % k = 0 THEN " " ELSE w[i % k]]

Card ==
    Obj([de |-> Str(<<"H", "a", "l", "l", "o">>), en |-> Str(<<"H", "i">>),
         hi |-> Str(<<"N", "a", "m">>), ex |-> Str(<<"H", "a", "l", "l", "o", "!">>)])

Question ==
    Obj([qu |-> Str(<<"W", "e", "r", "?">>), ops |-> List(<<Str(<<"a">>), Str(<<"b">>)>>),
         ans |-> Num(1)])

\* payloads that pass validation and map
GoodMinimal == Obj([t |-> Str(<<"x">>), l |-> Str(<<"A", "1">>), voc |-> List(<<Card>>)])
GoodDaily ==
    Obj([t |-> Str(<<"y">>), l |-> Str(<<"A", "2">>), voc |-> List(<<Card, Card>>),
         txt |-> Str(<<"H", "a", "l", "l", "o", " ", "W", "e", "l", "t">>),
         q |-> List(<<Question>>), wr |-> Str(<<"S", "c", "h", "r", "e", "i", "b">>)])
\* payloads the validator rejects and the mapper maps
NoVocabulary == Obj([t |-> Str(<<"x">>), l |-> Str(<<"A", "1">>)])
EmptyVocabulary == Obj([t |-> Str(<<"v">>), l |-> Str(<<"A", "1">>), voc |-> List(<<>>)])
Repetitive ==
    Obj([t |-> Str(<<"z">>), voc |-> List(<<Card>>),
         txt |-> Str(Repeat(<<"H", "a", "u", "s">>, MaxRepeat + 1))])
\* rejected for A0 only
LongForA0 ==
    Obj([t |-> Str(<<"w">>), voc |-> List(<<Card>>),
         txt |-> Str(Repeat(<<"a">>, MaxWordsA0 + 1))])
\* payloads of unexpected shape
VocabularyNotAList == Obj([t |-> Str(<<"x">>), voc |-> Num(5)])
QuestionsNotAList == Obj([t |-> Str(<<"x">>), q |-> Num(5)])
TextNotAString == Obj([voc |-> List(<<Card>>), txt |-> Num(5)])

Plain(v) == Str(<<Doc(v)>>)
Fenced(v) ==
    Str(Chars(FenceJson \o <<"\n">>) \o <<Doc(v)>> \o Chars(<<"\n">> \o Fence))
Truncated == Str(Chars(<<"{", "\"", "t", "\"", ":">>))

Texts ==
    {Plain(GoodMinimal), Fenced(GoodDaily), Plain(NoVocabulary),
     Plain(EmptyVocabulary), Plain(Repetitive),
     Plain(LongForA0), Plain(JNull), Plain(VocabularyNotAList),
     Plain(QuestionsNotAList), Plain(TextNotAString), Truncated}

\* a response text that is the empty string
EmptyText == Str(<<>>)

Outcomes ==
    {CallError, Response(Undef), Response(EmptyText)}
        \cup {Response(text) : text \in Texts}

----------------------------------------------------------------------------
(* generateLesson as a state machine *)

\* no generateLesson call in the two-call model
Idle ==
    [pc |-> "idle", level |-> "A1", attempt |-> 0, calls |-> 0, hist |-> <<>>,
     result |-> NoResult, escaped |-> FALSE]
ConIdle == reqs = [r \in {1, 2} |-> Idle]

\* no LessonSession mounted
SeIdle ==
    /\ mounted = FALSE
    /\ instance = 0
    /\ loads = <<>>
    /\ content = JNull
    /\ stage = "loading"
    /\ currentCardIndex = 0
    /\ readingAnswers = <<>>
    /\ writingText = FALSE
    /\ writingFeedback = Str(<<>>)
    /\ isEvaluating = FALSE
    /\ score = 0
    /\ evaluations = {}
    /\ completed = JNull

\* App not rendered
AppIdle ==
    /\ view = "loading"
    /\ activeLessonType = JNull
    /\ courseProgress = <<>>
    /\ examStats = Undef
    /\ currentLevel = "A0"
    /\ crashed = FALSE

\* no generateLesson call and no function applied on its own
GenIdle ==
    /\ pc = "idle"
    /\ level = "A1"
    /\ attempt = 0
    /\ calls = 0
    /\ hist = <<>>
    /\ result = NoResult
    /\ escaped = FALSE
    /\ timerMs = 0
    /\ elapsed = 0
FnIdle == fn = "none" /\ arg = Undef /\ out = NoResult

\* no evaluateWriting call under way
WrIdle ==
    /\ wpc = "idle"
    /\ wreq = Undef
    /\ wcalls = 0
    /\ wsent = Undef
    /\ wout = Undef
    /\ wresult = NoResult
    /\ wescaped = FALSE

Init ==
    /\ WrIdle
    /\ ConIdle
    /\ SeIdle
    /\ AppIdle
    /\ pc = "idle"
    /\ level = "A1"
    /\ attempt = 0
    /\ calls = 0
    /\ hist = <<>>
    /\ result = NoResult
    /\ escaped = FALSE
    /\ timerMs = 0
    /\ elapsed = 0
    /\ fn = "none"
    /\ arg = Undef
    /\ out = NoResult

\* the loop head with the loop variable at att: issue the next model call, or
\* leave the loop and return null (line 224)
LoopHead(att) ==
    /\ attempt' = att
    /\ elapsed' = 0
    /\ timerMs' = 0
    /\ IF LoopCond(att)
       THEN /\ calls' = calls + 1
            /\ pc' = "inflight"
            /\ UNCHANGED result
       ELSE /\ result' = JNull
            /\ pc' = "done"
            /\ UNCHANGED calls

\* generateLesson(level, type) is called: the prompt is built and the loop
\* is entered
Invoke(lvl) ==
    /\ pc = "idle"
    /\ level' = lvl
    /\ LoopHead(0)
    /\ UNCHANGED <<hist, escaped, fnVars, wrVars, conVars, seVars, appVars>>

\* the model call in flight settles with outcome o and the loop body runs up
\* to its next await or to the return
Settle(o) ==
    /\ pc = "inflight"
    /\ LET b == Body(o, level, attempt) IN
       /\ hist' = Append(hist, [out |-> o, gap |-> 0,
                                wait |-> IF b.act = "wait" THEN b.ms ELSE 0])
       /\ CASE b.act = "return" ->
                 /\ result' = b.val
                 /\ pc' = "done"
                 /\ elapsed' = 0
                 /\ UNCHANGED <<attempt, calls, escaped, timerMs>>
            [] b.act = "next" ->
                 /\ LoopHead(attempt + 1)
                 /\ UNCHANGED escaped
            [] b.act = "wait" ->
                 /\ timerMs' = b.ms
                 /\ elapsed' = 0
                 /\ pc' = "backoff"
                 /\ UNCHANGED <<attempt, calls, result, escaped>>
            [] b.act = "throw" ->
                 /\ escaped' = TRUE
                 /\ pc' = "done"
                 /\ elapsed' = 0
                 /\ UNCHANGED <<attempt, calls, result, timerMs>>
    /\ UNCHANGED <<level, fnVars, wrVars, conVars, seVars, appVars>>

\* mutants of TimerFires: the loop goes on without waiting for the timer;
\* the promise around the timer is never resolved
TimerFiresEarly ==
    /\ pc = "backoff"
    /\ hist' = [hist EXCEPT ![Len(hist)].gap = elapsed]
    /\ LoopHead(attempt + 1)
    /\ UNCHANGED <<level, escaped, fnVars, wrVars, conVars, seVars, appVars>>
TimerFiresNever ==
    /\ pc = "backoff"
    /\ FALSE
    /\ UNCHANGED vars

\* the backoff timer fires, not before its delay has passed, and the loop goes
\* on with the next attempt
TimerFires ==
    /\ pc = "backoff"
    /\ elapsed >= timerMs
    /\ hist' = [hist EXCEPT ![Len(hist)].gap = elapsed]
    /\ LoopHead(attempt + 1)
    /\ UNCHANGED <<level, escaped, fnVars, wrVars, conVars, seVars, appVars>>

\* time passes while the backoff timer is pending
Tick ==
    /\ pc = "backoff"
    /\ elapsed + TickMs <= MaxElapsed
    /\ elapsed' = elapsed + TickMs
    /\ UNCHANGED <<pc, level, attempt, calls, hist, result, escaped, timerMs, fnVars, wrVars, conVars, seVars, appVars>>

Next ==
    \/ \E lvl \in Levels : Invoke(lvl)
    \/ \E o \in Outcomes : Settle(o)
    \/ TimerFires
    \/ Tick

Spec == Init /\ [][Next]_vars

\* every model call settles, time passes and a timer that is due fires
LiveSpec ==
    /\ Spec
    /\ WF_vars(\E o \in Outcomes : Settle(o))
    /\ WF_vars(Tick)
    /\ WF_vars(TimerFires)

----------------------------------------------------------------------------
(* validateResponse, mapRawToLesson and the parsing applied on their own *)

AllLevels == {"A0", "A1", "A2", "B1"}

\* the property k of an object literal, left out when v is undefined
Field(k, v) == IF v = Undef THEN <<>> ELSE k :> v

Payload6(t, l, voc, txt, q, wr) ==
    Obj(Field("t", t) @@ Field("l", l) @@ Field("voc", voc) @@ Field("txt", txt)
            @@ Field("q", q) @@ Field("wr", wr))

Haus == <<"H", "a", "u", "s">>

\* reading texts around the two word-count ceilings and around the
\* repetition limit, a text that is no string, and no text
ReadingTexts ==
    {Undef, Str(<<>>), Num(5),
     Str(Repeat(<<"a">>, MaxWordsA0)), Str(Repeat(<<"a">>, MaxWordsA0 + 1)),
     Str(<<" ">> \o Repeat(<<"a">>, MaxWordsA0)),
     Str(Repeat(<<"a">>, MaxWordsOther)), Str(Repeat(<<"a">>, MaxWordsOther + 1)),
     Str(Repeat(Haus, MaxRepeat)), Str(Repeat(Haus, MaxRepeat + 1)),
     Str(Repeat(Haus, MaxRepeat) \o <<" ", "H", "A", "U", "S">>),
     Str(Repeat(<<"d", "e", "r">>, MaxRepeat + 1)),
     Str(Repeat(<<"c", "o", "n", "s", "t", "r", "u", "c", "t", "o", "r">>,
                MaxRepeat + 1))}

Vocabularies == {Undef, List(<<>>), List(<<Card>>), Num(5)}

ValidateArgs ==
    {[kind |-> "validate", lvl |-> lv,
      raw |-> Payload6(Str(<<"x">>), Undef, voc, txt, q, Undef)] :
        lv \in AllLevels, voc \in Vocabularies, txt \in ReadingTexts,
        q \in {Undef, List(<<Question>>)}}
      \cup {[kind |-> "validate", lvl |-> lv, raw |-> JNull] : lv \in AllLevels}

Card2 ==
    Obj([de |-> Str(<<"N", "a", "m", "e">>), en |-> Str(<<"n">>),
         hi |-> Str(<<"N", "a", "a", "m">>), ex |-> Str(<<"N", "a", "m", "e", "?">>)])

MapArgs ==
    {[kind |-> "map", raw |-> Payload6(t, l, voc, txt, q, wr)] :
        t \in {Undef, Str(<<>>), Str(<<"x">>)},
        l \in {Undef, Str(<<>>), Str(<<"A", "2">>)},
        voc \in {Undef, List(<<>>), List(<<Card>>), List(<<Card2, Card>>),
                 List(<<JNull>>), Num(5)},
        txt \in {Undef, Str(<<"H", "a", "l", "l", "o">>)},
        q \in {Undef, List(<<Question>>), Num(5)},
        wr \in {Undef, Str(<<"S", "c", "h", "r", "e", "i", "b">>)}}
      \cup {[kind |-> "map", raw |-> JNull]}

\* a document with nothing around it, wrapped in a fence with the tag json,
\* with no tag, with another tag, without the closing fence, with whitespace
\* around the fences; an unfenced document with whitespace around it; and a
\* text that is no document
Wrappings(v) ==
    {<<Doc(v)>>,
     Chars(FenceJson \o <<"\n">>) \o <<Doc(v)>> \o Chars(<<"\n">> \o Fence),
     Chars(Fence \o <<"\n">>) \o <<Doc(v)>> \o Chars(<<"\n">> \o Fence),
     Chars(FenceJson) \o <<Doc(v)>> \o Chars(Fence),
     Chars(<<" ", "\n">> \o FenceJson \o <<" ", "\n">>) \o <<Doc(v)>>
         \o Chars(<<" ", "\n">> \o Fence \o <<"\n">>),
     Chars(Fence \o <<"j", "s", "\n">>) \o <<Doc(v)>> \o Chars(<<"\n">> \o Fence),
     Chars(Fence \o <<"J", "S", "O", "N", "\n">>) \o <<Doc(v)>> \o Chars(<<"\n">> \o Fence),
     Chars(FenceJson \o <<"\n">>) \o <<Doc(v)>>,
     Chars(<<" ", "\n">>) \o <<Doc(v)>> \o Chars(<<"\n">>),
     <<Doc(v)>> \o Chars(<<"\n">> \o Fence),
     Chars(<<"{", "\"", "t", "\"", ":">>)}

Docs == {GoodMinimal, NoVocabulary, JNull, Num(5)}

ParseArgs ==
    {[kind |-> "parse", text |-> w] : w \in UNION {Wrappings(v) : v \in Docs}}

FnArgs == ValidateArgs \cup MapArgs \cup ParseArgs

FnInit ==
    /\ WrIdle
    /\ ConIdle
    /\ SeIdle
    /\ AppIdle
    /\ pc = "idle"
    /\ level = "A1"
    /\ attempt = 0
    /\ calls = 0
    /\ hist = <<>>
    /\ result = NoResult
    /\ escaped = FALSE
    /\ timerMs = 0
    /\ elapsed = 0
    /\ fn = "none"
    /\ arg \in FnArgs
    /\ out = NoResult

\* validateResponse(raw, level)
ApplyValidate ==
    /\ fn = "none"
    /\ arg.kind = "validate"
    /\ fn' = "validate"
    /\ out' = validateResponse(arg.raw, arg.lvl)
    /\ UNCHANGED <<arg, genVars, wrVars, conVars, seVars, appVars>>

\* mapRawToLesson(raw)
ApplyMap ==
    /\ fn = "none"
    /\ arg.kind = "map"
    /\ fn' = "map"
    /\ out' = mapRawToLesson(arg.raw)
    /\ UNCHANGED <<arg, genVars, wrVars, conVars, seVars, appVars>>

\* lines 193-201: the text is cleaned and parsed
ApplyParse ==
    /\ fn = "none"
    /\ arg.kind = "parse"
    /\ fn' = "parse"
    /\ out' = [clean |-> cleanText(arg.text),
               rawData |-> JSONparse(cleanText(arg.text))]
    /\ UNCHANGED <<arg, genVars, wrVars, conVars, seVars, appVars>>

FnNext == ApplyValidate \/ ApplyMap \/ ApplyParse

FnSpec == FnInit /\ [][FnNext]_vars

----------------------------------------------------------------------------
(* evaluateWriting *)

\* the two fixed strings of lines 246 and 249
EmptyFallback == Str(<<"C", "o", "u", "l", "d", " ", "n", "o", "t", " ", "g", "e", "n", "e", "r", "a", "t", "e", " ", "f", "e", "e", "d", "b", "a", "c", "k", ".">>)
ErrorFallback == Str(<<"E", "r", "r", "o", "r", " ", "g", "e", "n", "e", "r", "a", "t", "i", "n", "g", " ", "f", "e", "e", "d", "b", "a", "c", "k", ".", " ", "P", "l", "e", "a", "s", "e", " ", "t", "r", "y", " ", "a", "g", "a", "i", "n", ".">>)

\* what the caller passes: the lesson's writing prompt, the learner's text
\* (possibly empty) and the level
WritingPrompts == {Str(<<"W", "e", "r", " ", "b", "i", "s", "t", " ", "d", "u", "?">>), Str(<<"W", "a", "s", " ", "i", "s", "s", "t", " ", "d", "u", "?">>)}
UserTexts == {Str(<<>>), Str(<<"I", "c", "h", " ", "b", "i", "n", " ", "T", "o", "m">>), Str(<<"I", "c", "h", " ", "e", "s", "s", "e", " ", "B", "r", "o", "t">>)}
WritingRequests ==
    {[prompt |-> p, userText |-> u, level |-> l] :
        p \in WritingPrompts, u \in UserTexts, l \in AllLevels}

\* the template literal of line 231: level, prompt and text put into the
\* fixed wording
WritingContents(req) ==
    [student |-> req.level, asked |-> req.prompt, wrote |-> req.userText]

\* what the model call can do: reject, or resolve with a response whose text
\* is undefined, empty or a feedback text
Feedbacks == {Str(<<"G", "u", "t", ",", " ", "A", "1">>), Str(<<"W", "e", "a", "k", " ", "A", "2">>)}
WritingOutcomes ==
    {CallError, Response(Undef), Response(Str(<<>>))}
        \cup {Response(f) : f \in Feedbacks}

\* mutant of WritingTryBlock: the model call left outside the try
WritingTryBlockWithoutCall == {"text"}

\* the steps of evaluateWriting inside try { ... } (lines 228-247)
WritingTryBlock == {"call", "text"}

\* evaluateWriting(prompt, userText, level) is called
EvaluateWriting(req) ==
    /\ wpc = "idle"
    /\ wpc' = "calling"
    /\ wreq' = req
    /\ UNCHANGED <<wcalls, wsent, wout, wresult, wescaped, genVars, fnVars, conVars, seVars, appVars>>

\* line 229: the one model call is issued
WritingInvoke ==
    /\ wpc = "calling"
    /\ wpc' = "inflight"
    /\ wcalls' = wcalls + 1
    /\ wsent' = WritingContents(wreq)
    /\ UNCHANGED <<wreq, wout, wresult, wescaped, genVars, fnVars, conVars, seVars, appVars>>

\* the model call ends with outcome o: the text, or the fallback for a falsy
\* text, is returned (line 246); an error is caught and answered with the
\* other fallback (lines 247-250)
WritingSettle(o) ==
    /\ wpc = "inflight"
    /\ wpc' = "done"
    /\ wout' = o
    /\ IF o.kind = "error"
       THEN IF "call" \in WritingTryBlock
            THEN wresult' = ErrorFallback /\ wescaped' = wescaped
            ELSE wresult' = wresult /\ wescaped' = TRUE
       ELSE wresult' = OrElse(o.text, EmptyFallback) /\ wescaped' = wescaped
    /\ UNCHANGED <<wreq, wcalls, wsent, genVars, fnVars, conVars, seVars, appVars>>

WritingInit ==
    /\ WrIdle
    /\ ConIdle
    /\ SeIdle
    /\ AppIdle
    /\ pc = "idle"
    /\ level = "A1"
    /\ attempt = 0
    /\ calls = 0
    /\ hist = <<>>
    /\ result = NoResult
    /\ escaped = FALSE
    /\ timerMs = 0
    /\ elapsed = 0
    /\ fn = "none"
    /\ arg = Undef
    /\ out = NoResult

WritingNext ==
    \/ \E req \in WritingRequests : EvaluateWriting(req)
    \/ WritingInvoke
    \/ \E o \in WritingOutcomes : WritingSettle(o)

WritingSpec == WritingInit /\ [][WritingNext]_vars

----------------------------------------------------------------------------
(* Two generateLesson calls side by side.  Each call has its own level, loop *)
(* variable and results (locals of the async function); the time a backoff   *)
(* takes is left open, so the timers of the two calls fire in any order.     *)

ConLevels == {"A0", "A1"}
ConOutcomes ==
    {CallError, Response(Undef), Response(Plain(GoodMinimal)),
     Response(Plain(NoVocabulary)), Response(Plain(LongForA0))}

\* mutant of LoopVariable: one loop variable at module scope, shared by the
\* calls
LoopVariableShared(rs, r) == rs[1].attempt

\* the loop variable call r works with: `let attempt` of its own invocation
LoopVariable(rs, r) == rs[r].attempt

\* the loop head of call q with the loop variable at att (lines 137, 224)
AtLoopHead(q, att) ==
    IF LoopCond(att)
    THEN [q EXCEPT !.attempt = att, !.calls = @ + 1, !.pc = "inflight"]
    ELSE [q EXCEPT !.attempt = att, !.result = JNull, !.pc = "done"]

\* call q after its model call settled with o in iteration att
Settled(q, o, att) ==
    LET b == Body(o, q.level, att)
        h == [q EXCEPT !.hist = Append(@, o)]
    IN CASE b.act = "return" -> [h EXCEPT !.result = b.val, !.pc = "done"]
         [] b.act = "next" -> AtLoopHead(h, att + 1)
         [] b.act = "wait" -> [h EXCEPT !.pc = "backoff"]
         [] b.act = "throw" -> [h EXCEPT !.escaped = TRUE, !.pc = "done"]

ConInvoke(r, lvl) ==
    /\ reqs[r].pc = "idle"
    /\ reqs' = [reqs EXCEPT ![r] = AtLoopHead([@ EXCEPT !.level = lvl], 0)]
    /\ UNCHANGED <<genVars, fnVars, wrVars, seVars, appVars>>

ConSettle(r, o) ==
    /\ reqs[r].pc = "inflight"
    /\ reqs' = [reqs EXCEPT ![r] = Settled(@, o, LoopVariable(reqs, r))]
    /\ UNCHANGED <<genVars, fnVars, wrVars, seVars, appVars>>

ConTimerFires(r) ==
    /\ reqs[r].pc = "backoff"
    /\ reqs' = [reqs EXCEPT ![r] = AtLoopHead(@, LoopVariable(reqs, r) + 1)]
    /\ UNCHANGED <<genVars, fnVars, wrVars, seVars, appVars>>

ConInit == GenIdle /\ FnIdle /\ WrIdle /\ ConIdle /\ SeIdle /\ AppIdle

ConNext ==
    \E r \in {1, 2} :
        \/ \E lvl \in ConLevels : ConInvoke(r, lvl)
        \/ \E o \in ConOutcomes : ConSettle(r, o)
        \/ ConTimerFires(r)

ConSpec == ConInit /\ [][ConNext]_vars

----------------------------------------------------------------------------
(* LessonSession (components/LessonSession.tsx) *)

\* mounts and changes of props followed in one run
MaxLoads == 2

\* what generateLesson can resolve with: null, or the lesson of a payload
\* that was accepted or returned as best effort
Hallo == Str(<<"H", "a", "l", "l", "o">>)
Schreib == Str(<<"S", "c", "h", "r", "e", "i", "b">>)
SessionPayloads ==
    {GoodMinimal, GoodDaily, NoVocabulary,
     Payload6(Str(<<"x">>), Undef, Undef, Hallo, List(<<Question>>), Undef),
     Payload6(Str(<<"x">>), Undef, List(<<>>), Undef, Undef, Schreib),
     Payload6(Str(<<"x">>), Undef, List(<<Card2, Card>>), Undef, Undef, Schreib),
     Payload6(Str(<<"x">>), Undef, List(<<Card>>), Hallo, Undef, Undef),
     Payload6(Str(<<"x">>), Undef, Undef, Hallo, List(<<Question, Question>>), Schreib)}
LoadResults == {JNull} \cup {mapRawToLesson(p).val : p \in SessionPayloads}

\* what evaluateWriting can resolve with
WritingResults == {Str(<<"G", "u", "t", ",", " ", "A", "1">>), ErrorFallback}

\* the props of a session: level and type
SessionProps == {<<"A0", "daily">>, <<"B1", "exam">>}

\* mutant of Delivers: no isMounted flag
DeliversUnguarded(load, data) == data # JNull

\* `if (isMounted && data)`, line 30
Delivers(load, data) == load.isMounted /\ data # JNull

\* setState of an instance that is no longer mounted does nothing
Attached(inst) == mounted /\ inst = instance

\* mutant of FirstStage: the vocabulary not tested for being empty
FirstStageAlwaysVocab(data) == "vocab"

\* lines 33-42: the first stage of a loaded lesson
FirstStage(data) ==
    IF Truthy(data.vocabulary) /\ Len(data.vocabulary.items) > 0 THEN "vocab"
    ELSE IF Truthy(data.readingText) THEN "reading"
    ELSE IF Truthy(data.writingPrompt) THEN "writing"
    ELSE "finished"

\* mutant of HasNextCard: one card too many
HasNextCardInclusive(idx, c) == idx < Len(c.vocabulary.items)

\* line 53: currentCardIndex < content.vocabulary.length - 1
HasNextCard(idx, c) == idx < Len(c.vocabulary.items) - 1

\* lines 55-61: the stage after the last card
AfterVocab(c) ==
    IF Truthy(c.readingText) THEN "reading"
    ELSE IF Truthy(c.writingPrompt) THEN "writing"
    ELSE "finished"

\* lines 64-65: the stage after the reading
AfterReading(c) == IF Truthy(c.writingPrompt) THEN "writing" ELSE "finished"

\* content.readingQuestions?.length || 0 (line 235)
QuestionCount(c) ==
    IF Nullish(c.readingQuestions) THEN 0 ELSE Len(c.readingQuestions.items)

\* what the component renders (lines 85-95 and the stage blocks)
Shown ==
    IF stage = "loading" THEN "spinner"
    ELSE IF content = JNull THEN "error"
    ELSE stage

\* the state of a fresh instance (lines 16-24)
Fresh ==
    /\ content' = JNull
    /\ stage' = "loading"
    /\ currentCardIndex' = 0
    /\ readingAnswers' = <<>>
    /\ writingText' = FALSE
    /\ writingFeedback' = Str(<<>>)
    /\ isEvaluating' = FALSE
    /\ score' = 0

\* the effect of lines 26-47 runs: loadContent calls generateLesson
NewLoad(inst, lvl, typ) ==
    [inst |-> inst, isMounted |-> TRUE, settled |-> FALSE, gaveNull |-> FALSE,
     level |-> lvl, type |-> typ]

\* the cleanup of the effect that ran last (line 46)
Cleanup(ls) == [ls EXCEPT ![Len(ls)].isMounted = FALSE]

\* App renders a LessonSession
Mount(lvl, typ) ==
    /\ ~mounted
    /\ Len(loads) < MaxLoads
    /\ mounted' = TRUE
    /\ instance' = instance + 1
    /\ Fresh
    /\ loads' = Append(loads, NewLoad(instance + 1, lvl, typ))
    /\ completed' = JNull
    /\ UNCHANGED <<evaluations, genVars, fnVars, wrVars, conVars, appVars>>

\* the instance is removed: its effect is cleaned up and its state is gone
Removed ==
    /\ mounted' = FALSE
    /\ loads' = Cleanup(loads)
    /\ Fresh
    /\ UNCHANGED <<instance, evaluations, genVars, fnVars, wrVars, conVars, appVars>>

\* onBack (lines 95, 101): the button exists once the spinner is gone
Back ==
    /\ mounted
    /\ stage # "loading"
    /\ Removed
    /\ UNCHANGED completed

\* a generateLesson call of loadContent resolves with data (lines 29-43)
LoadSettles(i, data) ==
    /\ i \in DOMAIN loads
    /\ ~loads[i].settled
    /\ loads' = [loads EXCEPT ![i].settled = TRUE, ![i].gaveNull = (data = JNull)]
    /\ IF Delivers(loads[i], data) /\ Attached(loads[i].inst)
       THEN content' = data /\ stage' = FirstStage(data)
       ELSE UNCHANGED <<content, stage>>
    /\ UNCHANGED <<mounted, instance, currentCardIndex, readingAnswers, writingText,
                   writingFeedback, isEvaluating, score, evaluations, completed,
                   genVars, fnVars, wrVars, conVars, appVars>>

\* handleNext (lines 49-67), from the Next Word button or from the Continue
\* button, which is shown when every question has an answer (line 235)
HandleNext ==
    /\ mounted
    /\ content # JNull
    /\ \/ /\ stage = "vocab"
          /\ IF HasNextCard(currentCardIndex, content)
             THEN currentCardIndex' = currentCardIndex + 1 /\ UNCHANGED stage
             ELSE stage' = AfterVocab(content) /\ UNCHANGED currentCardIndex
       \/ /\ stage = "reading"
          /\ Cardinality(DOMAIN readingAnswers) = QuestionCount(content)
          /\ stage' = AfterReading(content)
          /\ UNCHANGED currentCardIndex
    /\ UNCHANGED <<mounted, instance, loads, content, readingAnswers, writingText,
                   writingFeedback, isEvaluating, score, evaluations, completed,
                   genVars, fnVars, wrVars, conVars, appVars>>

\* mutant of Answer: the buttons of an answered question stay enabled
AnswerNotDisabled(idx, opt) ==
    /\ mounted
    /\ content # JNull
    /\ stage = "reading"
    /\ idx \in 0..(QuestionCount(content) - 1)
    /\ LET q == content.readingQuestions.items[idx + 1] IN
       /\ q.options.tag = "list"
       /\ opt \in 0..(Len(q.options.items) - 1)
       /\ score' = IF Num(opt) = q.correctAnswer THEN score + 5 ELSE score
    /\ readingAnswers' = (idx :> opt) @@ readingAnswers
    /\ UNCHANGED <<mounted, instance, loads, content, stage, currentCardIndex,
                   writingText, writingFeedback, isEvaluating, evaluations, completed,
                   genVars, fnVars, wrVars, conVars, appVars>>

\* an option of question idx is chosen (lines 211-215); the buttons of an
\* answered question are disabled
Answer(idx, opt) ==
    /\ mounted
    /\ content # JNull
    /\ stage = "reading"
    /\ idx \in 0..(QuestionCount(content) - 1)
    /\ idx \notin DOMAIN readingAnswers
    /\ LET q == content.readingQuestions.items[idx + 1] IN
       /\ q.options.tag = "list"
       /\ opt \in 0..(Len(q.options.items) - 1)
       /\ score' = IF Num(opt) = q.correctAnswer THEN score + 5 ELSE score
    /\ readingAnswers' = readingAnswers @@ (idx :> opt)
    /\ UNCHANGED <<mounted, instance, loads, content, stage, currentCardIndex,
                   writingText, writingFeedback, isEvaluating, evaluations, completed,
                   genVars, fnVars, wrVars, conVars, appVars>>

\* the learner types (line 266); long says whether 10 characters are reached
Type(long) ==
    /\ mounted
    /\ content # JNull
    /\ stage = "writing"
    /\ writingText' = long
    /\ UNCHANGED <<mounted, instance, loads, content, stage, currentCardIndex,
                   readingAnswers, writingFeedback, isEvaluating, score, evaluations,
                   completed, genVars, fnVars, wrVars, conVars, appVars>>

\* submitWriting up to its await (lines 69-72); line 272 disables the button
SubmitWriting ==
    /\ mounted
    /\ content # JNull
    /\ stage = "writing"
    /\ writingText
    /\ ~isEvaluating
    /\ Truthy(content.writingPrompt)
    /\ isEvaluating' = TRUE
    /\ evaluations' = evaluations \cup {instance}
    /\ UNCHANGED <<mounted, instance, loads, content, stage, currentCardIndex,
                   readingAnswers, writingText, writingFeedback, score, completed,
                   genVars, fnVars, wrVars, conVars, appVars>>

\* evaluateWriting resolves and submitWriting goes on (lines 73-76)
EvaluationSettles(inst, feedback) ==
    /\ inst \in evaluations
    /\ evaluations' = evaluations \ {inst}
    /\ IF Attached(inst)
       THEN /\ writingFeedback' = feedback
            /\ isEvaluating' = FALSE
            /\ stage' = "feedback"
            /\ score' = score + 10
       ELSE UNCHANGED <<writingFeedback, isEvaluating, stage, score>>
    /\ UNCHANGED <<mounted, instance, loads, content, currentCardIndex, readingAnswers,
                   writingText, completed, genVars, fnVars, wrVars, conVars, appVars>>

\* See Summary (line 291)
SeeSummary ==
    /\ mounted
    /\ content # JNull
    /\ stage = "feedback"
    /\ stage' = "finished"
    /\ UNCHANGED <<mounted, instance, loads, content, currentCardIndex, readingAnswers,
                   writingText, writingFeedback, isEvaluating, score, evaluations,
                   completed, genVars, fnVars, wrVars, conVars, appVars>>

\* finishLesson (lines 79-81): onComplete(score), after which App shows the
\* dashboard
FinishLesson ==
    /\ mounted
    /\ content # JNull
    /\ stage = "finished"
    /\ completed' = Num(score)
    /\ Removed

\* a parent other than App removes the session at any time
ParentUnmounts ==
    /\ mounted
    /\ Removed
    /\ UNCHANGED completed

\* a parent other than App changes level or type: the effect is cleaned up
\* and run again (line 47), the state of the instance stays
ChangeProps(lvl, typ) ==
    /\ mounted
    /\ Len(loads) < MaxLoads
    /\ <<lvl, typ>> # <<loads[Len(loads)].level, loads[Len(loads)].type>>
    /\ loads' = Append(Cleanup(loads), NewLoad(instance, lvl, typ))
    /\ UNCHANGED <<mounted, instance, content, stage, currentCardIndex, readingAnswers,
                   writingText, writingFeedback, isEvaluating, score, evaluations,
                   completed, genVars, fnVars, wrVars, conVars, appVars>>

SessionInit == GenIdle /\ FnIdle /\ WrIdle /\ ConIdle /\ SeIdle /\ AppIdle

SessionNext ==
    \/ \E p \in SessionProps : Mount(p[1], p[2])
    \/ Back
    \/ \E i \in 1..MaxLoads, data \in LoadResults : LoadSettles(i, data)
    \/ HandleNext
    \/ \E idx \in 0..1, opt \in 0..1 : Answer(idx, opt)
    \/ \E long \in BOOLEAN : Type(long)
    \/ SubmitWriting
    \/ \E inst \in 1..MaxLoads, feedback \in WritingResults :
            EvaluationSettles(inst, feedback)
    \/ SeeSummary
    \/ FinishLesson

\* the session as App uses it
SessionSpec == SessionInit /\ [][SessionNext]_vars

AnyParentNext ==
    \/ SessionNext
    \/ ParentUnmounts
    \/ \E p \in SessionProps : ChangeProps(p[1], p[2])

\* the session under a parent that may remove it or change its props at any
\* time
AnyParentSpec == SessionInit /\ [][AnyParentNext]_vars

----------------------------------------------------------------------------
(* App (App.tsx) with the buttons of the Dashboard *)

CourseLevels == {"A1", "A2", "B1"}

\* INITIAL_STATE.courseProgress and INITIAL_STATE.examStats
InitialProgress ==
    [l \in CourseLevels |->
        [lessonsDone |-> 0,
         totalLessons |-> CASE l = "A1" -> TotalA1 [] l = "A2" -> TotalA2
                            [] l = "B1" -> TotalB1]]
InitialExamStats == [lastScore |-> "N/A", dated |-> FALSE]

\* the scores a session hands to onComplete
Scores == {0, 15}

\* the sessions the Dashboard can start (lines 371, 397, 421 of
\* LessonSession.tsx): daily at the current level, topic at the current level
\* when it is a course level, exam at B1
Startable(cur) ==
    {[type |-> "daily", level |-> cur], [type |-> "exam", level |-> "B1"]}
        \cup {[type |-> "topic", level |-> l] : l \in CourseLevels \cap {cur}}

\* mutant of CanAdvance: the counter allowed to pass the total
CanAdvanceInclusive(p) == p.lessonsDone <= p.totalLessons

\* lessonsDone < totalLessons (line 58)
CanAdvance(p) == p.lessonsDone < p.totalLessons

\* activeLessonType?.level || 'A1' (line 55)
CompletedLevel(active) == IF active = JNull THEN "A1" ELSE active.level

\* the updater of lines 53-69 reads courseProgress[level].lessonsDone, which
\* raises a TypeError when courseProgress has no entry for the level
UpdaterRaises(cp, lvl) == lvl \notin DOMAIN cp

\* lines 57-60
Progressed(cp, lvl) ==
    IF CanAdvance(cp[lvl]) THEN [cp EXCEPT ![lvl].lessonsDone = @ + 1] ELSE cp

\* lines 62-66
ExamStatsAfter(es, active, sc) ==
    IF active # JNull /\ active.type = "exam"
    THEN [lastScore |-> sc, dated |-> TRUE]
    ELSE es

\* handleOnboardingComplete (lines 42-45)
OnboardingComplete(lvl) ==
    /\ ~crashed
    /\ view = "onboarding"
    /\ currentLevel' = lvl
    /\ view' = "dashboard"
    /\ UNCHANGED <<activeLessonType, courseProgress, examStats, crashed,
                   genVars, fnVars, wrVars, conVars, seVars>>

\* handleStartSession (lines 47-50), from a button of the Dashboard
StartSession(a) ==
    /\ ~crashed
    /\ view = "dashboard"
    /\ a \in Startable(currentLevel)
    /\ activeLessonType' = a
    /\ view' = "lesson"
    /\ UNCHANGED <<courseProgress, examStats, currentLevel, crashed,
                   genVars, fnVars, wrVars, conVars, seVars>>

\* onBack of the session (line 90)
BackToDashboard ==
    /\ ~crashed
    /\ view = "lesson"
    /\ view' = "dashboard"
    /\ UNCHANGED <<activeLessonType, courseProgress, examStats, currentLevel, crashed,
                   genVars, fnVars, wrVars, conVars, seVars>>

\* handleLessonComplete (lines 52-73) and the render that runs its updater:
\* an exception of the updater reaches React, which removes the App
LessonComplete(sc) ==
    /\ ~crashed
    /\ view = "lesson"
    /\ activeLessonType # JNull
    /\ LET lvl == CompletedLevel(activeLessonType) IN
       IF UpdaterRaises(courseProgress, lvl)
       THEN /\ crashed' = TRUE
            /\ UNCHANGED <<view, activeLessonType, courseProgress, examStats>>
       ELSE /\ courseProgress' = Progressed(courseProgress, lvl)
            /\ examStats' = ExamStatsAfter(examStats, activeLessonType, sc)
            /\ view' = "dashboard"
            /\ activeLessonType' = JNull
            /\ UNCHANGED crashed
    /\ UNCHANGED <<currentLevel, genVars, fnVars, wrVars, conVars, seVars>>

AppInit ==
    /\ GenIdle /\ FnIdle /\ WrIdle /\ ConIdle /\ SeIdle
    /\ view = "onboarding"
    /\ activeLessonType = JNull
    /\ courseProgress = InitialProgress
    /\ examStats = InitialExamStats
    /\ currentLevel = "A0"
    /\ crashed = FALSE

AppNext ==
    \/ \E lvl \in AllLevels : OnboardingComplete(lvl)
    \/ \E a \in Startable(currentLevel) : StartSession(a)
    \/ BackToDashboard
    \/ \E sc \in Scores : LessonComplete(sc)

AppSpec == AppInit /\ [][AppNext]_vars

----------------------------------------------------------------------------
(* How an attempt ended, read off the recorded outcome with the operators *)
(* of the loop body                                                        *)

IsTransportError(o) == o.kind = "error"
HasText(o) == o.kind = "response" /\ Truthy(o.text)
IsNoText(o) == o.kind = "response" /\ ~Truthy(o.text)
Parse(o) == JSONparse(cleanText(o.text.chars))
IsParseError(o) == HasText(o) /\ ~Parse(o).ok
IsParsed(o) == HasText(o) /\ Parse(o).ok
Payload(o) == Parse(o).val
ValidatorReturns(o, lvl, b) ==
    /\ IsParsed(o)
    /\ validateResponse(Payload(o), lvl) = Ok(b)
IsRejected(o, lvl) == ValidatorReturns(o, lvl, FALSE)
IsAccepted(o, lvl) == ValidatorReturns(o, lvl, TRUE)
ValidatorRaises(o, lvl) == IsParsed(o) /\ ~validateResponse(Payload(o), lvl).ok
Mappable(o) == IsParsed(o) /\ mapRawToLesson(Payload(o)).ok
Mapped(o) == Lesson(mapRawToLesson(Payload(o)).val)

Returned == pc = "done" /\ ~escaped
Attempts == 1..Len(hist)

----------------------------------------------------------------------------
(* Claims *)

\* C1: whatever the per-attempt outcomes are, one generateLesson call issues
\* at most 3 model calls.
C1_AtMostThreeCalls == calls <= 3

\* C1 witness: a call that used all three attempts and returned.
C1_Witness == pc = "done" /\ calls = 3 /\ Len(hist) = 3

\* C2 (as claimed): when the third attempt parses to a payload the validator
\* rejects, generateLesson returns the mapping of that payload and not null.
C2_ExhaustionDegrade ==
    (pc = "done" /\ Len(hist) = 3 /\ IsRejected(hist[3].out, level))
        => /\ result # JNull
           /\ Mappable(hist[3].out)
           /\ result = Mapped(hist[3].out)

\* C3: when the third attempt raises a transport or a parse error,
\* generateLesson returns null, however the first two attempts failed.
C3_ExhaustionFailure ==
    (pc = "done" /\ Len(hist) = 3
        /\ (IsTransportError(hist[3].out) \/ IsParseError(hist[3].out)))
        => Returned /\ result = JNull

\* C3 witness: three transport errors in a row; and a validator rejection,
\* a transport error and then an unparseable text.
C3_Witness ==
    /\ pc = "done"
    /\ Len(hist) = 3
    /\ \/ \A n \in 1..3 : IsTransportError(hist[n].out)
       \/ /\ IsRejected(hist[1].out, level)
          /\ IsTransportError(hist[2].out)
          /\ IsParseError(hist[3].out)
    /\ result = JNull

\* C4 (as claimed): in a run that returns null every attempt failed at the
\* transport/parse layer: none was a validator rejection and none completed
\* without an error.
C4_NullOnlyIfAllAttemptsErrored ==
    (Returned /\ result = JNull)
        => \A n \in Attempts :
               IsTransportError(hist[n].out) \/ IsParseError(hist[n].out)

\* C4 (amended): in a run that returns null three attempts were made and the
\* third one produced no lesson: it raised an error (transport, parse, or a
\* TypeError while validating or mapping the payload) or carried no text.
C4_NullOnlyIfLastAttemptFailed ==
    (Returned /\ result = JNull)
        => /\ Len(hist) = 3
           /\ LET o == hist[3].out IN
              \/ IsTransportError(o)
              \/ IsParseError(o)
              \/ IsNoText(o)
              \/ ValidatorRaises(o, level)
              \/ ~Mappable(o)

\* C4 witness: null is returned although the first attempt was a validator
\* rejection of a parsed payload.
C4_Witness ==
    /\ Returned
    /\ result = JNull
    /\ IsRejected(hist[1].out, level)
    /\ IsTransportError(hist[3].out)

\* C5 (as claimed): when attempts 1..k-1 fail by a transport error or a
\* validator rejection and attempt k yields a payload that passes validation,
\* exactly k model calls are made and the result is the mapping of that payload.
C5_FirstValidPayloadReturned ==
    \A k \in Attempts :
        (/\ pc = "done"
         /\ IsAccepted(hist[k].out, level)
         /\ \A n \in 1..(k - 1) :
                IsTransportError(hist[n].out) \/ IsRejected(hist[n].out, level))
            => /\ calls = k
               /\ Mappable(hist[k].out)
               /\ result = Mapped(hist[k].out)

\* C6: generateLesson never throws to its caller; a finished call has
\* resolved with a LessonContent or with null.
C6_NeverThrows ==
    /\ ~escaped
    /\ pc = "done" => (result = JNull \/ result.tag = "lesson")

\* C6 witness: a finished call whose three attempts parsed to null, to a
\* payload with a reading text that is no string, and to a payload with a
\* vocabulary that is no list.
C6_Witness ==
    /\ pc = "done"
    /\ Len(hist) = 3
    /\ \A n \in Attempts : IsParsed(hist[n].out)
    /\ \E n \in Attempts : Payload(hist[n].out) = JNull
    /\ \E n \in Attempts :
           LET txt == Get(Payload(hist[n].out), "txt") IN
           Truthy(txt) /\ txt.tag # "string"
    /\ \E n \in Attempts :
           LET voc == Get(Payload(hist[n].out), "voc") IN
           Truthy(voc) /\ voc.tag # "list"

\* C7: whenever generateLesson returns null, exactly 3 model calls have been
\* made by that call.
C7_NullOnlyAfterThreeCalls == (pc = "done" /\ result = JNull) => calls = 3

\* C7 witness: null returned from the catch block of the third attempt.
C7_Witness ==
    /\ pc = "done"
    /\ result = JNull
    /\ Len(hist) = 3
    /\ IsTransportError(hist[3].out)
    /\ IsNoText(hist[1].out)

\* C8: after a transport error in attempt n (1 or 2) a timer of 1000 ms * n is
\* set, and the next model call is not issued before that time has passed.
C8_LinearBackoff ==
    \A n \in Attempts :
        (n <= 2 /\ IsTransportError(hist[n].out))
            => /\ hist[n].wait = 1000 * n
               /\ calls = n => pc = "backoff"
               /\ calls > n => hist[n].gap >= 1000 * n

\* C8 witness: two transport errors, the third call issued exactly 1000 ms
\* and 2000 ms after them.
C8_Witness ==
    /\ calls = 3
    /\ Len(hist) >= 2
    /\ IsTransportError(hist[1].out) /\ hist[1].gap = 1000
    /\ IsTransportError(hist[2].out) /\ hist[2].gap = 2000

\* C9: after a validator rejection in attempt n (1 or 2) no timer is set and
\* the next model call is issued in the same step, with no time in between.
C9_ImmediateRetryOnRejection ==
    \A n \in Attempts :
        (n <= 2 /\ IsRejected(hist[n].out, level))
            => /\ hist[n].wait = 0
               /\ hist[n].gap = 0
               /\ calls > n
               /\ Len(hist) = n => pc = "inflight"

\* C9 witness: two validator rejections and the third call in flight.
C9_Witness ==
    /\ calls = 3
    /\ Len(hist) = 2
    /\ IsRejected(hist[1].out, level)
    /\ IsRejected(hist[2].out, level)

\* C10: an unparseable response text is handled like a transport error: it
\* uses up one attempt, is followed by the 1000 ms * n timer before the next
\* call, and gives null on the third attempt.
C10_ParseErrorLikeTransportError ==
    \A n \in Attempts :
        IsParseError(hist[n].out)
            => /\ Body(hist[n].out, level, n - 1) = Body(CallError, level, n - 1)
               /\ n <= 2 => /\ hist[n].wait = 1000 * n
                            /\ calls = n => pc = "backoff"
                            /\ calls > n => hist[n].gap >= 1000 * n
               /\ (n = 3 /\ pc = "done") => (Returned /\ result = JNull /\ calls = 3)

\* C10 witness: unparseable texts in attempts 1 and 3, the call finished.
C10_Witness ==
    /\ pc = "done"
    /\ Len(hist) = 3
    /\ IsParseError(hist[1].out) /\ hist[1].gap >= 1000
    /\ IsParseError(hist[3].out)
    /\ result = JNull

----------------------------------------------------------------------------
(* Claims about validateResponse, checked under FnSpec *)

\* the payload under validation and the parts of it the claims speak about
Validated == fn = "validate" /\ arg.raw.tag = "object"
VocabularyOf(raw) == Get(raw, "voc")
TextOf(raw) == Get(raw, "txt")
HasVocabulary(raw) ==
    VocabularyOf(raw).tag = "list" /\ Len(VocabularyOf(raw).items) > 0
HasReadingText(raw) == TextOf(raw).tag = "string" /\ Len(TextOf(raw).chars) > 0
WordsOf(raw) == split(TextOf(raw).chars)

\* the documented ceilings and limit
Ceiling(lvl) == IF lvl = "A0" THEN 60 ELSE 150
WithinCeiling(raw, lvl) == Len(WordsOf(raw)) <= Ceiling(lvl)

\* occurrences of the word w in words, upper and lower case taken as equal
Occurrences(words, w) ==
    Cardinality({j \in 1..Len(words) : toLowerCase(words[j]) = toLowerCase(w)})

\* some word of 4 or more characters occurs n or more times
LongWordOccurs(words, n) ==
    \E i \in 1..Len(words) : Len(words[i]) >= 4 /\ Occurrences(words, words[i]) >= n

\* C11 (as claimed): validateResponse returns false for every payload whose
\* vocabulary is missing or an empty list, for every level and whatever the
\* other fields hold.
C11_RejectsMissingVocabulary ==
    (Validated /\ VocabularyOf(arg.raw) \in {Undef, List(<<>>)}) => out = Ok(FALSE)

\* C12 (as claimed): with a non-empty vocabulary and a reading text within the
\* ceiling, validateResponse returns false when a word of 4 or more characters
\* occurs 9 or more times and true when the most frequent such word occurs
\* exactly 8 times.
C12_RepetitionBoundary ==
    (Validated /\ HasVocabulary(arg.raw) /\ HasReadingText(arg.raw)
        /\ WithinCeiling(arg.raw, arg.lvl))
        => /\ LongWordOccurs(WordsOf(arg.raw), 9) => out = Ok(FALSE)
           /\ (LongWordOccurs(WordsOf(arg.raw), 8) /\ ~LongWordOccurs(WordsOf(arg.raw), 9))
                  => out = Ok(TRUE)

\* C13: the ceiling is 60 words for A0 and 150 for A1, A2 and B1; a payload
\* with a reading text is rejected on length exactly when its whitespace-split
\* word count exceeds the ceiling of the level: above it validateResponse
\* returns false, and up to it a payload that has a vocabulary and no
\* repetition is accepted.
C13_LevelDependentCeiling ==
    /\ maxWords("A0") < maxWords("A1")
    /\ maxWords("A1") = maxWords("A2") /\ maxWords("A2") = maxWords("B1")
    /\ (Validated /\ HasReadingText(arg.raw))
          => /\ ~WithinCeiling(arg.raw, arg.lvl) => out = Ok(FALSE)
             /\ (WithinCeiling(arg.raw, arg.lvl) /\ HasVocabulary(arg.raw)
                     /\ ~LongWordOccurs(WordsOf(arg.raw), 9))
                    => out = Ok(TRUE)

\* C13 witness: a text between the two ceilings, rejected for A0.
C13_Witness ==
    /\ Validated /\ HasReadingText(arg.raw) /\ HasVocabulary(arg.raw)
    /\ Len(WordsOf(arg.raw)) > 60 /\ Len(WordsOf(arg.raw)) <= 150
    /\ arg.lvl = "A0"
    /\ out = Ok(FALSE)

\* C14 (as claimed): validateResponse returns true exactly when the vocabulary
\* list is non-empty and either no reading text is present or the text is
\* within the ceiling and no word longer than 3 characters occurs more than 8
\* times, upper and lower case taken as equal.
C14_AcceptsExactlyTheRest ==
    Validated
        => (out = Ok(TRUE)
               <=> /\ HasVocabulary(arg.raw)
                   /\ \/ ~Truthy(TextOf(arg.raw))
                      \/ /\ HasReadingText(arg.raw)
                         /\ WithinCeiling(arg.raw, arg.lvl)
                         /\ ~LongWordOccurs(WordsOf(arg.raw), 9))

----------------------------------------------------------------------------
(* Claim about the vocabulary of a returned lesson, checked under Spec *)

\* C15: a lesson returned from an attempt that passed validation has a
\* non-empty vocabulary list; a returned lesson with an empty vocabulary comes
\* from the best-effort return of a rejected payload on the third attempt.
C15_ValidatedLessonHasVocabulary ==
    (pc = "done" /\ result.tag = "lesson")
        => /\ result.lesson.vocabulary.tag = "list"
           /\ IsAccepted(hist[Len(hist)].out, level)
                  => Len(result.lesson.vocabulary.items) > 0
           /\ Len(result.lesson.vocabulary.items) = 0
                  => (Len(hist) = 3 /\ IsRejected(hist[3].out, level))

\* C15 witness: a lesson with an empty vocabulary returned on the third
\* attempt, from a payload whose vocabulary list is empty.
C15_Witness ==
    /\ pc = "done"
    /\ result.tag = "lesson"
    /\ Len(result.lesson.vocabulary.items) = 0
    /\ VocabularyOf(Payload(hist[3].out)) = List(<<>>)
    /\ \E n \in 1..2 : IsRejected(hist[n].out, level)

----------------------------------------------------------------------------
(* Claims about mapRawToLesson, checked under FnSpec *)

Mapping == fn = "map"
TopicOf(raw) == Get(raw, "t")
LevelOf(raw) == Get(raw, "l")

\* C16 (as claimed): mapRawToLesson returns a lesson for every parsed payload,
\* whichever fields are absent and whatever shape the present fields have.
C16_MapperTotal == Mapping => out.ok

\* a payload that carries only topic, level and one vocabulary entry
MinimalPayload ==
    /\ Mapping
    /\ arg.raw.tag = "object"
    /\ DOMAIN arg.raw.f = {"t", "l", "voc"}
    /\ VocabularyOf(arg.raw).tag = "list"
    /\ Len(VocabularyOf(arg.raw).items) = 1
    /\ VocabularyOf(arg.raw).items[1].tag = "object"

\* C17 (as claimed): for a payload that carries only topic, level and one
\* vocabulary entry the lesson has that topic and level, one vocabulary entry,
\* and reading text, reading translation, question list, writing prompt,
\* writing points and listening scenario are all undefined.
C17_MinimalPayloadOptionalsAbsent ==
    MinimalPayload
        => /\ out.ok
           /\ out.val.topic = TopicOf(arg.raw)
           /\ out.val.level = LevelOf(arg.raw)
           /\ Len(out.val.vocabulary.items) = 1
           /\ out.val.readingText = Undef
           /\ out.val.readingTextTranslation = Undef
           /\ out.val.readingQuestions = Undef
           /\ out.val.writingPrompt = Undef
           /\ out.val.writingPoints = Undef
           /\ out.val.listeningScenario = Undef

\* C17 (amended): for a payload that carries only a non-empty topic, a
\* non-empty level and one vocabulary entry the lesson has that topic and
\* level and one vocabulary entry with the four sub-fields of the payload's
\* entry under their domain names; the question list is the empty list, and
\* reading text, reading translation, writing prompt, writing points and
\* listening scenario are undefined.
C17_MinimalPayloadQuestionsEmpty ==
    (MinimalPayload /\ Truthy(TopicOf(arg.raw)) /\ Truthy(LevelOf(arg.raw)))
        => /\ out.ok
           /\ out.val.topic = TopicOf(arg.raw)
           /\ out.val.level = LevelOf(arg.raw)
           /\ Len(out.val.vocabulary.items) = 1
           /\ LET v == VocabularyOf(arg.raw).items[1]
                  card == out.val.vocabulary.items[1]
              IN /\ card.german = Get(v, "de")
                 /\ card.englishExplanation = Get(v, "en")
                 /\ card.hindiTranslation = Get(v, "hi")
                 /\ card.exampleSentence = Get(v, "ex")
           /\ out.val.readingQuestions = List(<<>>)
           /\ out.val.readingText = Undef
           /\ out.val.readingTextTranslation = Undef
           /\ out.val.writingPrompt = Undef
           /\ out.val.writingPoints = Undef
           /\ out.val.listeningScenario = Undef

\* C17 witness: the payload {t: "x", l: "A2", voc: [card]} mapped.
C17_Witness ==
    /\ MinimalPayload
    /\ TopicOf(arg.raw) = Str(<<"x">>)
    /\ LevelOf(arg.raw) = Str(<<"A", "2">>)
    /\ out.ok
    /\ out.val.vocabulary.items[1].german = Str(<<"H", "a", "l", "l", "o">>)

\* the vocabulary of the lesson is the payload's vocabulary, entry by entry,
\* under the domain names
VocabularyRenamed(lesson, raw) ==
    LET voc == IF VocabularyOf(raw).tag = "list" THEN VocabularyOf(raw).items ELSE <<>>
    IN /\ lesson.vocabulary.tag = "list"
       /\ Len(lesson.vocabulary.items) = Len(voc)
       /\ \A i \in 1..Len(voc) :
            /\ lesson.vocabulary.items[i].german = Get(voc[i], "de")
            /\ lesson.vocabulary.items[i].englishExplanation = Get(voc[i], "en")
            /\ lesson.vocabulary.items[i].hindiTranslation = Get(voc[i], "hi")
            /\ lesson.vocabulary.items[i].exampleSentence = Get(voc[i], "ex")

\* the fields the mapper only renames
CarriedOver(lesson, raw) ==
    /\ lesson.readingText = Get(raw, "txt")
    /\ lesson.readingTextTranslation = Get(raw, "txt_tr")
    /\ lesson.writingPrompt = Get(raw, "wr")
    /\ lesson.writingPoints = Get(raw, "pts")
    /\ lesson.listeningScenario = Get(raw, "lis")

----------------------------------------------------------------------------
(* Claim about the cleanup of the response text, checked under FnSpec *)

\* language tags an opening fence may carry; the empty one is no tag
FenceTags == {<<>>, <<"j", "s", "o", "n">>, <<"j", "s">>, <<"J", "S", "O", "N">>}

\* text is the document v wrapped in a fenced code block
FencedDoc(text, v) ==
    \E tag \in FenceTags :
        text = Chars(Fence \o tag \o <<"\n">>) \o <<Doc(v)>> \o Chars(<<"\n">> \o Fence)

\* C19 (as claimed): a text that wraps a JSON document in a fenced code block,
\* with or without a language tag on the opening fence, parses to the same
\* object as the document alone; a text that does not open with a fence
\* leaves the fence-stripping as it entered it, trimmed.
C19_FenceStripping ==
    fn = "parse"
        => /\ \A v \in Docs :
                FencedDoc(arg.text, v) => out.rawData = JSONparse(<<Doc(v)>>)
           /\ ~startsWith(trim(arg.text), Fence) => out.clean = trim(arg.text)

----------------------------------------------------------------------------
(* Claim about evaluateWriting, checked under WritingSpec *)

\* C20: a call of evaluateWriting issues exactly one model call and none
\* after it, never throws, and returns the model's feedback text, or the
\* fixed string of the empty response when the model gave no text, or the
\* fixed string of the error when the model call failed.
C20_WritingSingleShot ==
    /\ wcalls <= 1
    /\ ~wescaped
    /\ wpc \in {"inflight", "done"} => wcalls = 1
    /\ wpc = "done"
          => /\ wresult.tag = "string"
             /\ wout.kind = "error" => wresult = ErrorFallback
             /\ (wout.kind = "response" /\ wout.text \in {Undef, Str(<<>>)})
                    => wresult = EmptyFallback
             /\ (wout.kind = "response" /\ wout.text \notin {Undef, Str(<<>>)})
                    => wresult = wout.text

\* C20 witness: the model call failed, and the call returned the error
\* string after its one model call.
C20_Witness ==
    /\ wpc = "done"
    /\ wout.kind = "error"
    /\ wcalls = 1
    /\ wresult.tag = "string"
    /\ Len(wresult.chars) = 44

----------------------------------------------------------------------------
(* Claims about the order of the attempts, checked under Spec and LiveSpec *)

\* C22: within one generateLesson call at most one model call is in flight,
\* the model calls are issued one at a time, each only when all earlier ones
\* have completed, and after a backoff timer was set only when its delay has
\* passed.
C22_SequentialLoop ==
    /\ [](calls - Len(hist) = IF pc = "inflight" THEN 1 ELSE 0)
    /\ [][calls' # calls
            => /\ calls' = calls + 1
               /\ Len(hist') = calls
               /\ pc = "backoff" => elapsed >= timerMs]_vars

\* C22 witness: the third call in flight, after an error with its timer and a
\* response without text.
C22_Witness ==
    /\ pc = "inflight"
    /\ calls = 3
    /\ IsTransportError(hist[1].out) /\ hist[1].gap >= hist[1].wait
    /\ hist[1].wait > 0
    /\ IsNoText(hist[2].out)

\* C26: a generateLesson call that has started eventually returns a lesson
\* or null, given that model calls settle and timers fire.
C26_Terminates ==
    (pc \in {"inflight", "backoff"})
        ~> (pc = "done" /\ ~escaped /\ result.tag \in {"lesson", "null"})

\* C26 witness: a call that returned a lesson on its third attempt, after a
\* backoff wait and a rejected payload.
C26_Witness ==
    /\ pc = "done"
    /\ result.tag = "lesson"
    /\ Len(hist) = 3
    /\ hist[1].wait > 0
    /\ IsRejected(hist[2].out, level)

\* C27: an attempt whose response has no text (undefined or empty) raises no
\* error and is not validated; it uses up one attempt, the next model call
\* follows at once with no timer, and when every later attempt has no text
\* either the call returns null.
C27_NoTextAttempt ==
    \A n \in Attempts :
        IsNoText(hist[n].out)
            => /\ Body(hist[n].out, level, n - 1).act = "next"
               /\ hist[n].wait = 0
               /\ hist[n].gap = 0
               /\ Len(hist) = n => ~escaped
               /\ n < 3 => /\ calls > n
                           /\ Len(hist) = n => (pc = "inflight" /\ calls = n + 1)
               /\ (Len(hist) = 3 /\ \A m \in n..3 : IsNoText(hist[m].out))
                      => (pc = "done" /\ result = JNull /\ ~escaped /\ calls = 3)

\* C27 witness: null returned after a rejected payload and two responses
\* without text, one undefined and one empty.
C27_Witness ==
    /\ pc = "done"
    /\ result = JNull
    /\ Len(hist) = 3
    /\ IsRejected(hist[1].out, level)
    /\ hist[2].out = Response(Undef)
    /\ hist[3].out = Response(EmptyText)

----------------------------------------------------------------------------
(* Claim about concurrent generateLesson calls, checked under ConSpec *)

\* what a call at level lvl does on its own when its model calls settle with
\* outs[i], outs[i + 1], ... and the loop variable is att
RECURSIVE AloneFrom(_, _, _, _)
AloneFrom(lvl, outs, i, att) ==
    IF ~LoopCond(att)
    THEN [done |-> TRUE, result |-> JNull, escaped |-> FALSE, calls |-> i - 1]
    ELSE IF i > Len(outs)
    THEN [done |-> FALSE, result |-> NoResult, escaped |-> FALSE, calls |-> i]
    ELSE LET b == Body(outs[i], lvl, att) IN
         CASE b.act = "return" ->
                [done |-> TRUE, result |-> b.val, escaped |-> FALSE, calls |-> i]
           [] b.act = "throw" ->
                [done |-> TRUE, result |-> NoResult, escaped |-> TRUE, calls |-> i]
           [] OTHER -> AloneFrom(lvl, outs, i + 1, att + 1)

\* C21: under every interleaving of two calls, each call issues at most 3
\* model calls, and whether it has returned, what it returned and how many
\* model calls it issued are those of a call on its own with the same level
\* and the same outcomes.
C21_CallsIndependent ==
    \A r \in {1, 2} :
        reqs[r].pc # "idle"
            => LET q == reqs[r]
                   a == AloneFrom(q.level, q.hist, 1, 0)
               IN /\ q.calls <= 3
                  /\ a.done <=> q.pc = "done"
                  /\ a.done => /\ q.result = a.result
                               /\ q.escaped = a.escaped
                               /\ q.calls = a.calls
                  /\ ~a.done => q.calls \in {Len(q.hist), Len(q.hist) + 1}

\* C21 witness: the first call returned null after three errors while the
\* second, started meanwhile, returned a lesson on its second attempt.
C21_Witness ==
    /\ reqs[1].pc = "done" /\ reqs[1].result = JNull /\ reqs[1].calls = 3
    /\ reqs[2].pc = "done" /\ reqs[2].result.tag = "lesson" /\ reqs[2].calls = 2
    /\ reqs[2].level = "A0"
    /\ reqs[2].hist[1] = Response(Plain(LongForA0))

----------------------------------------------------------------------------
(* Claims about LessonSession, checked under SessionSpec and AnyParentSpec *)

\* the order of the stages
Rank(st) ==
    CASE st = "loading" -> 0 [] st = "vocab" -> 1 [] st = "reading" -> 2
      [] st = "writing" -> 3 [] st = "feedback" -> 4 [] st = "finished" -> 5

SameInstance == mounted /\ mounted' /\ instance' = instance

\* C23: the stage of a session never goes back in the order loading, vocab,
\* reading, writing, feedback, finished; the stage is vocab only with a
\* non-empty vocabulary, reading only with a reading text, writing only with
\* a writing prompt, and feedback is entered only from writing while a
\* submission is being evaluated.
C23_StageForward ==
    /\ [](mounted =>
            /\ stage # "loading" => content # JNull
            /\ stage = "vocab" => Len(content.vocabulary.items) > 0
            /\ stage = "reading" => Truthy(content.readingText)
            /\ stage = "writing" => Truthy(content.writingPrompt)
            /\ stage = "feedback" => Truthy(content.writingPrompt))
    /\ [][SameInstance => Rank(stage') >= Rank(stage)]_vars
    /\ [][(SameInstance /\ stage' = "feedback" /\ stage # "feedback")
            => (stage = "writing" /\ isEvaluating)]_vars

\* C23 witness: the feedback stage of a lesson with two cards, a reading
\* text with an answered question and a writing prompt.
C23_Witness ==
    /\ mounted
    /\ stage = "feedback"
    /\ currentCardIndex = 1
    /\ DOMAIN readingAnswers = {0}
    /\ score = 15

\* C24: when a generateLesson call settles whose effect was cleaned up before
\* (the session was removed, or its level or type changed), neither content
\* nor stage changes.
C24_StaleLoadDiscarded ==
    [][\A i \in DOMAIN loads :
            (~loads[i].settled /\ loads'[i].settled /\ ~loads[i].isMounted)
                => (content' = content /\ stage' = stage)]_vars

\* C24 witness: the props of a mounted session changed while the first call
\* was in flight; that call has resolved with a lesson, the second has not,
\* and the session still shows the spinner.
C24_Witness ==
    /\ mounted
    /\ Len(loads) = 2
    /\ loads[1].inst = instance /\ loads[2].inst = instance
    /\ loads[1].settled /\ ~loads[1].gaveNull /\ ~loads[1].isMounted
    /\ ~loads[2].settled
    /\ stage = "loading" /\ content = JNull

\* C25 (as claimed): once generateLesson has resolved to null for the mounted
\* session, the session has left the spinner and shows the error view.
C25_NullShowsError ==
    \A i \in DOMAIN loads :
        (loads[i].settled /\ loads[i].gaveNull /\ loads[i].isMounted
            /\ Attached(loads[i].inst))
            => Shown = "error"

\* C29: in the vocab stage the lesson has a non-empty vocabulary and
\* 0 <= currentCardIndex < vocabulary.length; the index changes only by one
\* upwards within a session; and a step from the last card leaves the vocab
\* stage without moving the index.
C29_CardIndexInRange ==
    /\ []((mounted /\ stage = "vocab")
            => /\ content # JNull
               /\ Len(content.vocabulary.items) > 0
               /\ 0 <= currentCardIndex
               /\ currentCardIndex < Len(content.vocabulary.items))
    /\ [][(SameInstance /\ currentCardIndex' # currentCardIndex)
            => (stage = "vocab" /\ stage' = "vocab"
                    /\ currentCardIndex' = currentCardIndex + 1)]_vars
    /\ [][(SameInstance /\ stage = "vocab"
              /\ currentCardIndex = Len(content.vocabulary.items) - 1
              /\ <<stage, currentCardIndex>>' # <<stage, currentCardIndex>>)
            => (stage' # "vocab" /\ currentCardIndex' = currentCardIndex)]_vars

\* C29 witness: the second and last card of a lesson that has no reading
\* text.
C29_Witness ==
    /\ mounted
    /\ stage = "vocab"
    /\ currentCardIndex = 1
    /\ Len(content.vocabulary.items) = 2
    /\ content.readingText = Undef

----------------------------------------------------------------------------
(* Claims about App, checked under AppSpec *)

\* a step of handleLessonComplete
Completion == \E sc \in Scores : LessonComplete(sc)

\* C28 (as claimed): for every session the Dashboard can start, daily at the
\* current level A0 included, completing the lesson raises no error, shows
\* the dashboard and clears the active lesson.
C28_CompletionSucceeds ==
    /\ [](~crashed)
    /\ [][Completion => (view' = "dashboard" /\ activeLessonType' = JNull)]_vars

\* C30: lessonsDone never exceeds totalLessons for A1, A2 and B1; a step
\* changes no totalLessons, raises lessonsDone by one at most and only for
\* the level of the lesson being completed.
C30_ProgressBounded ==
    /\ [](\A l \in CourseLevels :
            courseProgress[l].lessonsDone <= courseProgress[l].totalLessons)
    /\ [][\A l \in CourseLevels :
            /\ courseProgress'[l].totalLessons = courseProgress[l].totalLessons
            /\ courseProgress'[l].lessonsDone - courseProgress[l].lessonsDone \in {0, 1}
            /\ courseProgress'[l].lessonsDone # courseProgress[l].lessonsDone
                  => (view = "lesson" /\ activeLessonType # JNull
                        /\ l = activeLessonType.level)]_vars

\* C30 witness: the A1 counter at its total of 20 after completions of A1
\* lessons, the B1 counter at 2 after exam sessions, the A2 counter untouched.
C30_Witness ==
    /\ view = "dashboard"
    /\ courseProgress["A1"].lessonsDone = 20
    /\ courseProgress["B1"].lessonsDone = 2
    /\ courseProgress["A2"].lessonsDone = 0
    /\ examStats.dated

----------------------------------------------------------------------------
(* The score of a session, checked under SessionSpec *)

\* the answered questions whose chosen option is the correct one
CorrectAnswers ==
    {idx \in DOMAIN readingAnswers :
        Num(readingAnswers[idx]) = content.readingQuestions.items[idx + 1].correctAnswer}

\* the writing reward has been given: the stage is past writing
WritingRewarded == stage \in {"feedback", "finished"}

\* C31: the score of a session is at most 5 for each reading question plus 10:
\* an answer, once given, is never changed and adds 5 only when the chosen
\* option is the correct one, and the writing reward of 10 is added only on
\* the step from writing to feedback, which a session takes at most once.
C31_ScoreBounded ==
    /\ [](/\ content = JNull => score = 0
          /\ content # JNull =>
                /\ DOMAIN readingAnswers \subseteq 0..(QuestionCount(content) - 1)
                /\ score <= 5 * Cardinality(CorrectAnswers)
                                + (IF WritingRewarded THEN 10 ELSE 0)
                /\ score <= 5 * QuestionCount(content) + 10)
    /\ [][SameInstance =>
            /\ \A idx \in DOMAIN readingAnswers :
                    idx \in DOMAIN readingAnswers'
                        /\ readingAnswers'[idx] = readingAnswers[idx]
            /\ score' # score =>
                  \/ /\ score' = score + 5
                     /\ \E idx \in DOMAIN readingAnswers' \ DOMAIN readingAnswers :
                            /\ DOMAIN readingAnswers' = DOMAIN readingAnswers \cup {idx}
                            /\ Num(readingAnswers'[idx]) =
                                  content.readingQuestions.items[idx + 1].correctAnswer
                  \/ /\ score' = score + 10
                     /\ stage = "writing"
                     /\ stage' = "feedback"]_vars

\* C31 witness: a lesson of two questions, both answered correctly, and the
\* writing rewarded: the score is at the bound of 20.
C31_Witness ==
    /\ mounted
    /\ content # JNull
    /\ QuestionCount(content) = 2
    /\ Cardinality(CorrectAnswers) = 2
    /\ stage = "finished"
    /\ score = 20

====
